---- MODULE Spec2Model ----
(***************************************************************************)
(* Flow lifecycle and interception control of mitmproxy/flow.py.           *)
(*                                                                         *)
(* Flow objects live in the sequence `flows` (a Python reference to a Flow *)
(* is its index), Reply objects in the sequence `replies` (a reference to  *)
(* a Reply is its index, 0 is Python's None).  Optional object-valued      *)
(* attributes (error, _backup) hold the record None when unset; the        *)
(* Optional[bool] attribute `live` and Optional[str] attribute `is_replay` *)
(* hold the strings "None", "True", "False" / "None", "request", ...       *)
(*                                                                         *)
(* Every method of Flow is an operator from (flow, replies) to an outcome  *)
(* record [flow, replies, result, calls]: the flow and the Reply heap      *)
(* after the call, "ok" or the name of the exception raised, and the       *)
(* Reply primitives the call invoked.  The actions apply one method to one *)
(* flow and record the call in `last` (and the call before it in `prev`),  *)
(* with the arguments the claims tell apart in `args`.                     *)
(* `pending` is the set of flows whose Reply an intercept() moved from     *)
(* start to taken and on which only backup() and revert() were called      *)
(* since.                                                                  *)
(***************************************************************************)
EXTENDS Integers, Sequences, FiniteSets, TLC

VARIABLES flows, replies, now, last, prev, nops, pending

vars == <<flows, replies, now, last, prev, nops, pending>>

(* ------------------------------ bounds --------------------------------- *)

\* at most this many Flow objects are ever constructed
MaxFlows == 2
\* time.time() ranges over 1..MaxTime
MaxTime == 2
\* at most this many method calls are made
MaxOps == 4

(* ----------------------------- constants ------------------------------- *)

None == [none |-> TRUE]

NoReply == 0

KILLED_MESSAGE == "Connection killed."

\* a message of an out-of-band failure recorded by the I/O layer
OTHER_MESSAGE == "Connection timed out."

FLOW_FORMAT_VERSION == "FLOW_FORMAT_VERSION"

(* ------------------------------- Error --------------------------------- *)

\* Error.__init__ with the timestamp already resolved (timestamp or time.time())
Error(msg, timestamp) == [cls |-> "Error", msg |-> msg, timestamp |-> timestamp]

\* StateObject.get_state over Error._stateobject_attributes
Error_get_state(e) == [msg |-> e.msg, timestamp |-> e.timestamp]

\* Error.from_state: cls(None) then set_state(state)
Error_from_state(state) == Error(state.msg, state.timestamp)

(* ------------------------------- Reply --------------------------------- *)

\* a Reply created by the I/O layer for a live flow
Reply == [state |-> "start", inert |-> FALSE]

\* the inert placeholder: permanently in a committed-equivalent state
DummyReply == [state |-> "committed", inert |-> TRUE]

\* Reply.take: start -> taken, otherwise a no-op
take(rs, r) ==
    IF rs[r].state = "start" /\ ~rs[r].inert
    THEN [rs EXCEPT ![r].state = "taken"]
    ELSE rs

\* Reply.commit: taken -> committed, otherwise a no-op
commit(rs, r) ==
    IF rs[r].state = "taken" /\ ~rs[r].inert
    THEN [rs EXCEPT ![r].state = "committed"]
    ELSE rs

(* -------------------------------- Flow --------------------------------- *)

\* Flow.__init__; the uuid4 is the caller-supplied fresh id
Flow(type, id, client_conn, server_conn, live) ==
    [ type        |-> type,
      id          |-> id,
      client_conn |-> client_conn,
      server_conn |-> server_conn,
      live        |-> live,
      error       |-> None,
      intercepted |-> FALSE,
      _backup     |-> None,
      reply       |-> NoReply,
      marked      |-> FALSE,
      is_replay   |-> "None",
      metadata    |-> <<>> ]

\* StateObject.get_state over Flow._stateobject_attributes
StateObject_get_state(f) ==
    [ id          |-> f.id,
      error       |-> IF f.error = None THEN None ELSE Error_get_state(f.error),
      client_conn |-> f.client_conn,
      server_conn |-> f.server_conn,
      type        |-> f.type,
      intercepted |-> f.intercepted,
      is_replay   |-> f.is_replay,
      marked      |-> f.marked,
      metadata    |-> f.metadata ]

\* StateObject.set_state over Flow._stateobject_attributes
StateObject_set_state(f, state) ==
    [ f EXCEPT
        !.id          = state.id,
        !.error       = IF state.error = None THEN None
                        ELSE Error_from_state(state.error),
        !.client_conn = state.client_conn,
        !.server_conn = state.server_conn,
        !.type        = state.type,
        !.intercepted = state.intercepted,
        !.is_replay   = state.is_replay,
        !.marked      = state.marked,
        !.metadata    = state.metadata ]

\* dict.pop(key) for a key that is present
Pop(d, key) == [k \in DOMAIN d \ {key} |-> d[k]]

\* Flow.get_state
get_state(f) ==
    LET d == StateObject_get_state(f) @@ [version |-> FLOW_FORMAT_VERSION]
    IN  IF f._backup # None /\ f._backup # d
        THEN [backup |-> f._backup] @@ d
        ELSE d

\* set_state that discards the nested backup of the state
set_state_drop_backup(f, state) ==
    LET s1 == Pop(state, "version")
        s2 == IF "backup" \in DOMAIN s1 THEN Pop(s1, "backup") ELSE s1
    IN  StateObject_set_state(f, s2)

\* Flow.set_state (state carries a version key)
set_state(f, state) ==
    LET s1 == Pop(state, "version")
        f1 == IF "backup" \in DOMAIN s1
              THEN [f EXCEPT !._backup = s1.backup]
              ELSE f
        s2 == IF "backup" \in DOMAIN s1 THEN Pop(s1, "backup") ELSE s1
    IN  StateObject_set_state(f1, s2)

\* Flow.from_state: cls(None, None) of the flow's protocol subclass (whose
\* constructor takes the two connections), then set_state, which restores
\* every declared attribute including type
from_state(state, id) ==
    set_state(Flow("None", id, "None", "None", "None"), state)

\* modified that reports every held backup as a modification
modified_any_backup(f) ==
    IF f._backup # None THEN TRUE ELSE FALSE

\* Flow.modified
modified(f) ==
    IF f._backup # None THEN f._backup # get_state(f) ELSE FALSE

\* killable that accepts only a Reply in state start
killable_start_only(f, rs) ==
    /\ f.reply # NoReply
    /\ rs[f.reply].state \in {"start"}
    /\ ~(f.error # None /\ f.error.msg = KILLED_MESSAGE)

\* Flow.killable, as the truth value Flow.kill tests
killable(f, rs) ==
    /\ f.reply # NoReply
    /\ rs[f.reply].state \in {"start", "taken"}
    /\ ~(f.error # None /\ f.error.msg = KILLED_MESSAGE)

Outcome(f, rs, result, calls) ==
    [flow |-> f, replies |-> rs, result |-> result, calls |-> calls]

\* backup that captures a snapshot whether or not one is held
backup_overwrite(f, rs, force) ==
    Outcome([f EXCEPT !._backup = get_state(f)], rs, "ok", {})

\* backup that captures again once the flow differs from the held backup
backup_if_modified(f, rs, force) ==
    IF f._backup = None \/ f._backup # get_state(f)
    THEN Outcome([f EXCEPT !._backup = get_state(f)], rs, "ok", {})
    ELSE Outcome(f, rs, "ok", {})

\* Flow.backup
backup(f, rs, force) ==
    IF f._backup = None
    THEN Outcome([f EXCEPT !._backup = get_state(f)], rs, "ok", {})
    ELSE Outcome(f, rs, "ok", {})

\* revert that drops the backup without restoring from it
revert_no_restore(f, rs) ==
    IF f._backup # None
    THEN Outcome([f EXCEPT !._backup = None], rs, "ok", {})
    ELSE Outcome(f, rs, "ok", {})

\* Flow.revert
revert(f, rs) ==
    IF f._backup # None
    THEN Outcome([set_state(f, f._backup) EXCEPT !._backup = None], rs, "ok", {})
    ELSE Outcome(f, rs, "ok", {})

\* kill that marks the flow dead before it tests killable
kill_check_last(f, rs, t) ==
    Outcome([f EXCEPT !.error = Error(KILLED_MESSAGE, t),
                      !.intercepted = FALSE,
                      !.live = "False"], rs,
            IF ~killable(f, rs) THEN "ControlException" ELSE "ok", {})

\* kill that also releases the Reply
kill_commit(f, rs, t) ==
    IF ~killable(f, rs)
    THEN Outcome(f, rs, "ControlException", {})
    ELSE Outcome([f EXCEPT !.error = Error(KILLED_MESSAGE, t),
                           !.intercepted = FALSE,
                           !.live = "False"], commit(rs, f.reply), "ok",
                 {"commit"})

\* Flow.kill; t is the value of time.time()
kill(f, rs, t) ==
    IF ~killable(f, rs)
    THEN Outcome(f, rs, "ControlException", {})
    ELSE Outcome([f EXCEPT !.error = Error(KILLED_MESSAGE, t),
                           !.intercepted = FALSE,
                           !.live = "False"], rs, "ok", {})

\* intercept that sets the flag but never takes the Reply
intercept_no_take(f, rs) ==
    IF f.intercepted
    THEN Outcome(f, rs, "ok", {})
    ELSE IF f.reply = NoReply
         THEN Outcome([f EXCEPT !.intercepted = TRUE], rs, "AttributeError", {})
         ELSE Outcome([f EXCEPT !.intercepted = TRUE], rs, "ok", {})

\* intercept without the early return for an intercepted flow
intercept_unguarded(f, rs) ==
    IF f.reply = NoReply
    THEN Outcome([f EXCEPT !.intercepted = TRUE], rs, "AttributeError", {})
    ELSE Outcome([f EXCEPT !.intercepted = TRUE], take(rs, f.reply),
                 "ok", {"take"})

\* Flow.intercept
intercept(f, rs) ==
    IF f.intercepted
    THEN Outcome(f, rs, "ok", {})
    ELSE IF f.reply = NoReply
         THEN Outcome([f EXCEPT !.intercepted = TRUE], rs, "AttributeError", {})
         ELSE Outcome([f EXCEPT !.intercepted = TRUE], take(rs, f.reply),
                      "ok", {"take"})

\* resume without the early return for a flow that is not intercepted
resume_unguarded(f, rs) ==
    IF f.reply = NoReply
    THEN Outcome([f EXCEPT !.intercepted = FALSE], rs, "AttributeError", {})
    ELSE IF rs[f.reply].state = "taken"
         THEN Outcome([f EXCEPT !.intercepted = FALSE],
                      commit(rs, f.reply), "ok", {"commit"})
         ELSE Outcome([f EXCEPT !.intercepted = FALSE], rs, "ok", {})

\* resume that commits without testing that the Reply is taken
resume_commit_always(f, rs) ==
    IF ~f.intercepted
    THEN Outcome(f, rs, "ok", {})
    ELSE IF f.reply = NoReply
         THEN Outcome([f EXCEPT !.intercepted = FALSE], rs, "AttributeError", {})
         ELSE Outcome([f EXCEPT !.intercepted = FALSE],
                      commit(rs, f.reply), "ok", {"commit"})

\* Flow.resume
resume(f, rs) ==
    IF ~f.intercepted
    THEN Outcome(f, rs, "ok", {})
    ELSE IF f.reply = NoReply
         THEN Outcome([f EXCEPT !.intercepted = FALSE], rs, "AttributeError", {})
         ELSE IF rs[f.reply].state = "taken"
              THEN Outcome([f EXCEPT !.intercepted = FALSE],
                           commit(rs, f.reply), "ok", {"commit"})
              ELSE Outcome([f EXCEPT !.intercepted = FALSE], rs, "ok", {})

\* StateObject.copy: a new entity restored from the snapshot of f
StateObject_copy(f, id) == from_state(get_state(f), id)

\* copy that hands the Reply of the original to the new flow
copy_shared_reply(f, rs, id) ==
    LET c == [StateObject_copy(f, id) EXCEPT !.live = "False"]
    IN  Outcome([c EXCEPT !.reply = f.reply], rs, "ok", {})

\* copy that keeps the fresh id of the new flow
copy_new_id(f, rs, id) ==
    LET c == [StateObject_copy(f, id) EXCEPT !.live = "False", !.id = id]
    IN  IF f.reply # NoReply
        THEN Outcome([c EXCEPT !.reply = Len(rs) + 1], Append(rs, DummyReply),
                     "ok", {})
        ELSE Outcome(c, rs, "ok", {})

\* Flow.copy: the new flow and the Reply heap holding its placeholder
copy(f, rs, id) ==
    LET c == [StateObject_copy(f, id) EXCEPT !.live = "False"]
    IN  IF f.reply # NoReply
        THEN Outcome([c EXCEPT !.reply = Len(rs) + 1], Append(rs, DummyReply),
                     "ok", {})
        ELSE Outcome(c, rs, "ok", {})

(* ------------------------------ actions -------------------------------- *)

Call(op, i, result, calls) ==
    [op |-> op, f |-> i, result |-> result, calls |-> calls, args |-> <<>>]

NoCall == Call("init", 0, "ok", {})

\* the flows with a take outstanding from intercept() after the call
Pending(op, i, o) ==
    IF /\ op = "intercept"
       /\ flows[i].reply # NoReply
       /\ replies[flows[i].reply].state = "start"
       /\ o.replies[flows[i].reply].state = "taken"
    THEN pending \cup {i}
    ELSE IF op \in {"backup", "revert"} THEN pending ELSE pending \ {i}

\* the method call `op` with arguments `args` on flows[i] with outcome o
ApplyArgs(op, args, i, o) ==
    /\ nops < MaxOps
    /\ flows' = [flows EXCEPT ![i] = o.flow]
    /\ replies' = o.replies
    /\ prev' = last
    /\ last' = [Call(op, i, o.result, o.calls) EXCEPT !.args = args]
    /\ nops' = nops + 1
    /\ pending' = Pending(op, i, o)

\* the method call `op` on flows[i] with outcome o
Apply(op, i, o) == ApplyArgs(op, <<>>, i, o)

\* a method call on flows[i] that returns a new flow, with outcome o
Create(op, i, o) ==
    /\ nops < MaxOps
    /\ flows' = Append(flows, o.flow)
    /\ replies' = o.replies
    /\ prev' = last
    /\ last' = Call(op, i, o.result, o.calls)
    /\ nops' = nops + 1
    /\ pending' = pending \ {i}

Flows == 1..Len(flows)

Intercept ==
    \E i \in Flows :
        Apply("intercept", i, intercept(flows[i], replies)) /\ UNCHANGED now

Resume ==
    \E i \in Flows :
        Apply("resume", i, resume(flows[i], replies)) /\ UNCHANGED now

Kill ==
    \E i \in Flows, t \in now..MaxTime :
        /\ Apply("kill", i, kill(flows[i], replies, t))
        /\ now' = t

Backup ==
    \E i \in Flows, force \in BOOLEAN :
        /\ ApplyArgs("backup", <<force>>, i, backup(flows[i], replies, force))
        /\ UNCHANGED now

Revert ==
    \E i \in Flows :
        Apply("revert", i, revert(flows[i], replies)) /\ UNCHANGED now

Copy ==
    \E i \in Flows :
        /\ Len(flows) < MaxFlows
        /\ Create("copy", i, copy(flows[i], replies, Len(flows) + 1))
        /\ UNCHANGED now

\* a flow materialized from the persisted snapshot of flows[i]
FromState ==
    \E i \in Flows :
        /\ Len(flows) < MaxFlows
        /\ Create("from_state", i,
                  Outcome(from_state(get_state(flows[i]), Len(flows) + 1),
                          replies, "ok", {}))
        /\ UNCHANGED now

\* flows[i] is restored from the persisted snapshot of flows[j]
SetState ==
    \E i \in Flows, j \in Flows :
        /\ ApplyArgs("set_state", <<j>>, i,
                     Outcome(set_state(flows[i], get_state(flows[j])), replies,
                             "ok", {}))
        /\ UNCHANGED now

\* interception logic flips the user-level flag `marked`
Mark ==
    \E i \in Flows :
        /\ Apply("mark", i,
                 Outcome([flows[i] EXCEPT !.marked = ~@], replies, "ok", {}))
        /\ UNCHANGED now

\* the I/O layer records an out-of-band failure on a flow without one
Fail ==
    \E i \in Flows, t \in now..MaxTime :
        /\ flows[i].error = None
        /\ Apply("fail", i,
                 Outcome([flows[i] EXCEPT !.error = Error(OTHER_MESSAGE, t)],
                         replies, "ok", {}))
        /\ now' = t

(* --------------------------- specifications ---------------------------- *)

\* a flow the I/O layer constructed for a captured exchange: live, with a
\* Reply in state start attached
InitLive ==
    /\ flows = << [Flow("http", 1, "client", "server", "True") EXCEPT !.reply = 1] >>
    /\ replies = << Reply >>
    /\ now = 1
    /\ last = NoCall
    /\ prev = NoCall
    /\ nops = 0
    /\ pending = {}

\* a flow constructed without the I/O layer: no Reply attached
InitOffline ==
    /\ flows = << Flow("http", 1, "client", "server", "None") >>
    /\ replies = << >>
    /\ now = 1
    /\ last = NoCall
    /\ prev = NoCall
    /\ nops = 0
    /\ pending = {}

Init == InitLive \/ InitOffline

Next ==
    \/ Intercept
    \/ Resume
    \/ Kill
    \/ Backup
    \/ Revert
    \/ Copy
    \/ FromState
    \/ Mark
    \/ Fail

Spec == Init /\ [][Next]_vars

\* only the control operations, on a flow that starts with a Reply in start
NextControl ==
    \/ Intercept
    \/ Resume
    \/ Kill
    \/ Backup
    \/ Revert
    \/ Copy

SpecControl == InitLive /\ [][NextControl]_vars

\* the snapshot operations and the mutation that makes snapshots differ
NextSnapshot ==
    \/ Backup
    \/ Revert
    \/ Copy
    \/ FromState
    \/ SetState
    \/ Mark

SpecSnapshot == Init /\ [][NextSnapshot]_vars

(* ------------------------------ helpers -------------------------------- *)

ReplyState(f, rs) == IF f.reply = NoReply THEN "none" ELSE rs[f.reply].state

Killed(f) == f.error # None /\ f.error.msg = KILLED_MESSAGE

TypeOK ==
    /\ Len(flows) \in 1..MaxFlows
    /\ \A i \in Flows :
        /\ flows[i].reply \in 0..Len(replies)
        /\ flows[i].intercepted \in BOOLEAN
        /\ flows[i].live \in {"None", "True", "False"}
    /\ \A r \in 1..Len(replies) :
        replies[r].state \in {"start", "taken", "committed"}
    /\ now \in 1..MaxTime

Inert(f, rs) == f.reply # NoReply /\ rs[f.reply].inert

(* ------------------------------- claims -------------------------------- *)

\* C1 (as stated): whenever a flow is intercepted, its Reply is in state
\* taken.
C1_InterceptedImpliesTaken ==
    \A i \in Flows :
        flows[i].intercepted => ReplyState(flows[i], replies) = "taken"

\* C1 (amended): whenever a flow is intercepted, its Reply is not a real
\* Reply in state start: it is taken, or committed, or the inert placeholder
\* of a copy.
C1_InterceptedNotStart ==
    \A i \in Flows :
        flows[i].intercepted =>
            \/ Inert(flows[i], replies)
            \/ ReplyState(flows[i], replies) \in {"taken", "committed"}

\* C1 witness: an intercept() has just left a flow intercepted whose real
\* Reply was already committed by an earlier resume().
C1_Witness ==
    \E i \in Flows :
        /\ last.op = "intercept" /\ last.f = i
        /\ flows[i].intercepted
        /\ ~Inert(flows[i], replies)
        /\ ReplyState(flows[i], replies) = "committed"

\* the control operations C3 ranges over
C3_Ops == {"intercept", "resume", "backup", "revert", "kill"}

\* C2: intercept() immediately followed by resume() on the same flow ends
\* with intercepted == false and the Reply in state committed.
C2_InterceptThenResume ==
    \A i \in Flows :
        (/\ prev.op = "intercept" /\ prev.f = i
         /\ last.op = "resume" /\ last.f = i)
        => (/\ ~flows[i].intercepted
            /\ ReplyState(flows[i], replies) = "committed")

\* C3: once kill() has succeeded on a flow (a flow with a real Reply that
\* carries the kill sentinel), every later intercept(), resume(), backup(),
\* revert() and kill() leaves the sentinel in place and killable false, and
\* a further kill() fails with a control violation.
C3_KillPermanent ==
    [][\A i \in Flows :
        (/\ Killed(flows[i])
         /\ flows[i].reply # NoReply /\ ~Inert(flows[i], replies)
         /\ last'.f = i /\ last'.op \in C3_Ops)
        => (/\ Killed(flows'[i])
            /\ ~killable(flows'[i], replies')
            /\ (last'.op = "kill" => last'.result = "ControlException"))]_vars

\* C4: killable is false exactly when no Reply is attached, or the Reply is
\* committed, or the error carries the kill sentinel; otherwise it is true.
C4_KillableExactly ==
    \A i \in Flows :
        killable(flows[i], replies) <=>
            ~(\/ flows[i].reply = NoReply
              \/ ReplyState(flows[i], replies) = "committed"
              \/ Killed(flows[i]))

\* C4 witness: a kill() has succeeded on an intercepted flow, whose Reply is
\* still taken, so only the sentinel makes the flow not killable.
C4_Witness ==
    \E i \in Flows :
        /\ last.op = "kill" /\ last.f = i /\ last.result = "ok"
        /\ ReplyState(flows[i], replies) = "taken"
        /\ Killed(flows[i])
        /\ ~killable(flows[i], replies)

\* C5: kill() on a flow that is not killable fails with a control violation
\* and leaves every field of every flow and every Reply unchanged.
C5_KillRejected ==
    [][\A i \in Flows :
        (last'.op = "kill" /\ last'.f = i /\ ~killable(flows[i], replies))
        => (/\ last'.result = "ControlException"
            /\ flows' = flows
            /\ replies' = replies)]_vars

\* C5 witness: a kill() was rejected on a flow whose Reply is committed and
\* that carries an error other than the sentinel.
C5_Witness ==
    \E i \in Flows :
        /\ last.op = "kill" /\ last.f = i
        /\ last.result = "ControlException"
        /\ ReplyState(flows[i], replies) = "committed"
        /\ ~Inert(flows[i], replies)
        /\ flows[i].error # None

\* C6: kill() on a killable flow succeeds, sets error to an Error with the
\* message "Connection killed.", clears intercepted and live, and leaves the
\* Reply heap, id, type and the backup slot unchanged.
C6_KillEffect ==
    [][\A i \in Flows :
        (last'.op = "kill" /\ last'.f = i /\ killable(flows[i], replies))
        => (/\ last'.result = "ok"
            /\ flows'[i].error # None
            /\ flows'[i].error.msg = "Connection killed."
            /\ flows'[i].intercepted = FALSE
            /\ flows'[i].live = "False"
            /\ replies' = replies
            /\ flows'[i].reply = flows[i].reply
            /\ flows'[i].id = flows[i].id
            /\ flows'[i].type = flows[i].type
            /\ flows'[i]._backup = flows[i]._backup)]_vars

\* C6 witness: a kill() has succeeded right after the intercept() that took
\* the Reply, with a backup held; the Reply is still taken.
C6_Witness ==
    \E i \in Flows :
        /\ prev.op = "intercept" /\ prev.f = i /\ prev.calls = {"take"}
        /\ last.op = "kill" /\ last.f = i /\ last.result = "ok"
        /\ ReplyState(flows[i], replies) = "taken"
        /\ flows[i]._backup # None
        /\ ~flows[i].intercepted

\* C7: after intercept() took the Reply of a flow and kill() then succeeded
\* on it, a further intercept() is a no-op: intercepted stays false, the
\* Reply state and the error are unchanged.
C7_InterceptAfterKill ==
    [][\A i \in Flows :
        (/\ prev.op = "intercept" /\ prev.f = i /\ prev.calls = {"take"}
         /\ last.op = "kill" /\ last.f = i /\ last.result = "ok"
         /\ ReplyState(flows[i], replies) = "taken"
         /\ last'.op = "intercept" /\ last'.f = i)
        => (/\ flows'[i].intercepted = FALSE
            /\ replies' = replies
            /\ flows'[i].error = flows[i].error)]_vars

\* C8: intercept() called right after intercept() on the same flow changes
\* no flow and no Reply, and does not call take() again.
C8_InterceptIdempotent ==
    [][\A i \in Flows :
        (/\ last.op = "intercept" /\ last.f = i
         /\ last'.op = "intercept" /\ last'.f = i)
        => (/\ flows' = flows
            /\ replies' = replies
            /\ last'.calls = {})]_vars

\* C8 witness: two intercept() calls in a row on a flow whose Reply the
\* first one took.
C8_Witness ==
    \E i \in Flows :
        /\ prev.op = "intercept" /\ prev.f = i /\ prev.calls = {"take"}
        /\ last.op = "intercept" /\ last.f = i
        /\ flows[i].intercepted
        /\ ReplyState(flows[i], replies) = "taken"

\* C9: resume() on a flow that is not intercepted changes no flow and no
\* Reply, and does not call commit().
C9_ResumeNotIntercepted ==
    [][\A i \in Flows :
        (last'.op = "resume" /\ last'.f = i /\ ~flows[i].intercepted)
        => (/\ flows' = flows
            /\ replies' = replies
            /\ last'.calls = {})]_vars

\* C9 witness: resume() was called on a flow that kill() had released from
\* interception; its Reply is still taken.
C9_Witness ==
    \E i \in Flows :
        /\ prev.op = "kill" /\ prev.f = i /\ prev.result = "ok"
        /\ last.op = "resume" /\ last.f = i
        /\ ~flows[i].intercepted
        /\ ReplyState(flows[i], replies) = "taken"

\* C10: when intercept() has moved the Reply of a flow to taken and only
\* backup() and revert() were called on the flow since, the next resume()
\* commits the Reply.
C10_ResumeCommits ==
    [][\A i \in Flows :
        (i \in pending /\ last'.op = "resume" /\ last'.f = i)
        => ReplyState(flows'[i], replies') = "committed"]_vars

\* the plain snapshot of a flow: its declared attributes and the version tag
Snapshot(f) == StateObject_get_state(f) @@ [version |-> FLOW_FORMAT_VERSION]

\* the calls C11 ranges over: backup() and the mutations of a flow
C11_Ops == {"backup", "mark", "fail", "intercept", "resume", "kill"}

\* C11: while a backup is held, a backup() call and every mutation of the
\* flow (marked, error, intercept(), resume(), kill()) leave the backup slot
\* as it is, so it stays the snapshot the first backup() captured.
C11_BackupKept ==
    [][\A i \in Flows :
        (/\ flows[i]._backup # None
         /\ last'.f = i /\ last'.op \in C11_Ops)
        => flows'[i]._backup = flows[i]._backup]_vars

\* C11 witness: backup() without force was called on a flow right after a
\* mutation made it differ from the backup it holds; the backup still holds
\* the value from before the mutation.
C11_Witness ==
    \E i \in Flows :
        /\ prev.op = "mark" /\ prev.f = i
        /\ last.op = "backup" /\ last.f = i /\ last.args = <<FALSE>>
        /\ flows[i]._backup # None
        /\ flows[i]._backup.marked # flows[i].marked

\* C12: after backup(force=true) the backup slot equals the flow's current
\* snapshot and modified() is false, also when a backup was already held.
C12_ForcedBackup ==
    [][\A i \in Flows :
        (last'.op = "backup" /\ last'.f = i /\ last'.args = <<TRUE>>)
        => (/\ flows'[i]._backup = Snapshot(flows'[i])
            /\ ~modified(flows'[i]))]_vars

\* C13: revert() with a backup held leaves the flow with exactly the
\* attribute values of the backup snapshot (id, type, error, intercepted,
\* is_replay, marked, metadata, connections), an empty backup slot and
\* modified() false; revert() with no backup held changes nothing.
C13_RevertRestores ==
    [][\A i \in Flows :
        (last'.op = "revert" /\ last'.f = i)
        => IF flows[i]._backup # None
           THEN /\ Snapshot(flows'[i]) = flows[i]._backup
                /\ flows'[i]._backup = None
                /\ ~modified(flows'[i])
           ELSE /\ flows' = flows
                /\ replies' = replies]_vars

\* C13 witness: revert() was called right after a successful kill() and the
\* flow carries no error and no backup: the revert restored the error of
\* a backup captured before the kill.
C13_Witness ==
    \E i \in Flows :
        /\ prev.op = "kill" /\ prev.f = i /\ prev.result = "ok"
        /\ last.op = "revert" /\ last.f = i
        /\ flows[i].error = None
        /\ flows[i]._backup = None

\* C14: modified() is true exactly when a backup is held and the captured
\* snapshot differs from the flow's current snapshot.
C14_ModifiedExactly ==
    \A i \in Flows :
        modified(flows[i]) <=>
            (/\ flows[i]._backup # None
             /\ \E k \in DOMAIN Snapshot(flows[i]) \cup DOMAIN flows[i]._backup :
                    \/ k \notin DOMAIN flows[i]._backup
                    \/ k \notin DOMAIN Snapshot(flows[i])
                    \/ flows[i]._backup[k] # Snapshot(flows[i])[k])

\* C14 witness: a flow holds a backup equal to its current snapshot after a
\* mutation was made and then undone, and modified() is false.
C14_Witness ==
    \E i \in Flows :
        /\ prev.op = "mark" /\ prev.f = i
        /\ last.op = "mark" /\ last.f = i
        /\ flows[i]._backup # None
        /\ ~modified(flows[i])

\* C15: the flow that from_state() builds from get_state(x) has the
\* snapshot attributes of x, holds the backup of x whenever x holds one that
\* differs from its live state, and has the same get_state() as x.
C15_RoundTrip ==
    last.op = "from_state" =>
        LET x == flows[last.f]
            y == flows[Len(flows)]
        IN  /\ StateObject_get_state(y) = StateObject_get_state(x)
            /\ (modified(x) => y._backup = x._backup)
            /\ get_state(y) = get_state(x)

\* C15 witness: from_state() has rebuilt a flow that holds a backup differing
\* from its live state and that carries an error; the new flow holds the
\* backup.
C15_Witness ==
    /\ last.op = "from_state"
    /\ modified(flows[last.f])
    /\ flows[last.f].error # None
    /\ flows[Len(flows)]._backup # None

\* the calls C16 makes on a copy
C16_Ops == {"intercept", "resume", "kill"}

\* C16: copy() of a flow with a Reply returns a flow with live == false and
\* an inert placeholder Reply that is not the original's Reply, and changes
\* no existing Reply; intercept(), resume() and kill() on such a copy leave
\* every other flow (Reply reference, intercepted, error, live) and every
\* other flow's Reply state unchanged.
C16_CopyIsolated ==
    [][/\ (last'.op = "copy" /\ flows[last'.f].reply # NoReply)
          => LET c == flows'[Len(flows')]
             IN  /\ c.live = "False"
                 /\ Inert(c, replies')
                 /\ c.reply # flows[last'.f].reply
                 /\ \A i \in Flows :
                        /\ flows'[i] = flows[i]
                        /\ ReplyState(flows'[i], replies')
                             = ReplyState(flows[i], replies)
       /\ (/\ last'.op \in C16_Ops
           /\ last'.f \in Flows
           /\ Inert(flows[last'.f], replies))
          => \A i \in Flows \ {last'.f} :
                 /\ flows'[i] = flows[i]
                 /\ ReplyState(flows'[i], replies')
                      = ReplyState(flows[i], replies)]_vars

\* C16 witness: an intercepted flow was copied and resume() was called on
\* the copy; the original is still intercepted with its Reply taken.
C16_Witness ==
    \E i, j \in Flows :
        /\ i # j
        /\ prev.op = "copy" /\ prev.f = i
        /\ last.op = "resume" /\ last.f = j
        /\ Inert(flows[j], replies)
        /\ ~flows[j].intercepted
        /\ flows[i].intercepted
        /\ ReplyState(flows[i], replies) = "taken"

\* the calls C17 ranges over
C17_Ops == {"intercept", "resume", "kill", "backup", "revert", "copy"}

\* C17: intercept(), resume(), kill(), backup(), revert() and copy() leave
\* the id and the type of every existing flow unchanged, and the flow that
\* copy() returns carries the id and the type of the original.
C17_IdTypeStable ==
    [][last'.op \in C17_Ops
       => /\ \A i \in Flows :
                /\ flows'[i].id = flows[i].id
                /\ flows'[i].type = flows[i].type
          /\ last'.op = "copy"
             => /\ flows'[Len(flows')].id = flows[last'.f].id
                /\ flows'[Len(flows')].type = flows[last'.f].type]_vars

\* C17 witness: revert() has restored a copy from a backup; the copy still
\* carries the id and the type of the flow constructed first.
C17_Witness ==
    \E j \in Flows :
        /\ j # 1
        /\ Inert(flows[j], replies)
        /\ last.op = "revert" /\ last.f = j
        /\ prev.op = "mark" /\ prev.f = j
        /\ ~flows[j].marked
        /\ flows[j].id = flows[1].id
        /\ flows[j].type = flows[1].type

\* C18: the state of a Reply stays or moves start -> taken or taken ->
\* committed, a Reply is created in start or as the committed placeholder,
\* and a call issues commit() only on a Reply that is taken.
C18_ReplyMonotone ==
    [][/\ \A r \in 1..Len(replies) :
            <<replies[r].state, replies'[r].state>> \in
                {<<"start", "start">>, <<"taken", "taken">>,
                 <<"committed", "committed">>,
                 <<"start", "taken">>, <<"taken", "committed">>}
       /\ Len(replies') >= Len(replies)
       /\ "commit" \in last'.calls
          => /\ ReplyState(flows[last'.f], replies) = "taken"
             /\ ReplyState(flows'[last'.f], replies') = "committed"]_vars

\* C18 witness: a resume() has committed the Reply that an intercept() took.
C18_Witness ==
    \E i \in Flows :
        /\ prev.op = "intercept" /\ prev.f = i /\ prev.calls = {"take"}
        /\ last.op = "resume" /\ last.f = i /\ last.calls = {"commit"}
        /\ ReplyState(flows[i], replies) = "committed"

\* C19: the snapshot in the backup slot of a flow never contains a backup
\* entry of its own, and get_state() nests a backup entry only when a backup
\* is held and differs from the live snapshot; the nested entry is the held
\* backup.
C19_BackupDepthOne ==
    \A i \in Flows :
        /\ flows[i]._backup # None => "backup" \notin DOMAIN flows[i]._backup
        /\ "backup" \in DOMAIN get_state(flows[i])
           => /\ flows[i]._backup # None
              /\ flows[i]._backup # Snapshot(flows[i])
              /\ get_state(flows[i]).backup = flows[i]._backup
              /\ "backup" \notin DOMAIN get_state(flows[i]).backup

\* C19 witness: set_state() has restored a flow from the snapshot of another
\* flow that holds a backup differing from its live state; the restored flow
\* holds that backup, and its get_state() nests it.
C19_Witness ==
    \E i, j \in Flows :
        /\ i # j
        /\ last.op = "set_state" /\ last.f = i /\ last.args = <<j>>
        /\ modified(flows[j])
        /\ flows[i]._backup = flows[j]._backup
        /\ "backup" \in DOMAIN get_state(flows[i])

\* C20: intercept() never fails, and a flow is never left intercepted by a
\* failed intercept().
C20_InterceptNeverFails ==
    \A i \in Flows :
        (last.op = "intercept" /\ last.f = i)
        => /\ last.result = "ok"
           /\ (last.result # "ok" => ~flows[i].intercepted)

====
